---- MODULE Spec2Model ----
(***************************************************************************)
(* The clip-generation pipeline (backend/services/video_generator.py), the *)
(* assembler (backend/services/video_assembler.py) and the route that      *)
(* starts a generation (backend/main.py), as one state machine over the    *)
(* job store.                                                              *)
(*                                                                         *)
(* One generation record is modelled.  A clip is named by its position in  *)
(* the clip table; its file is clips/<id>.mp4, written NULL == <<>> or     *)
(* <<id>> in local_path.                                                   *)
(***************************************************************************)
EXTENDS Integers, Sequences, FiniteSets, TLC

\* ---------------------------------------------------------------- bounds
\* longest script handed to generate_video
MaxScenes == 3
\* invocations of assemble_video on the generation's record
MaxAsmRuns == 2
\* stored images analyze_and_script is called on
MaxImages == 2
\* different scripts the vision API may answer for one image
MaxVariants == 2
\* most scenes in a script the vision API answers
MaxReplyScenes == 13

\* ------------------------------------------------------ program constants
\* asyncio.Semaphore(3)
SemaphoreSize == 3
\* scenes = scenes[:1]
DebugSceneLimit == 1
\* zip(clips[:1], scenes_dicts[:1])
DebugTaskLimit == 1
\* max_attempts = 120
max_attempts == 120
\* completed_clips >= 1
GateThreshold == 1
\* if len(clips) != 12
ExpectedClips == 12
\* len(script["scenes"]) != 12
ExpectedScenes == 12

\* `shutil` is used at line 157 and bound by no import of video_generator.py
ShutilBound == FALSE

NULL == <<>>
FinalUrl == <<"/api/videos/", "_final.mp4">>

\* a scene of the script: <<>> has no "id" key, <<1>> has the id a first
\* scene without one defaults to
Scenes == {<<>>, <<1>>}
Scripts == UNION {[1..n -> Scenes] : n \in 0..MaxScenes}

VARIABLES
    wan_api_key,    \* VideoGenerator.wan_api_key is set
    ad_status,      \* committed AdGeneration.status; "absent" = no row
    ad_final,       \* committed AdGeneration.final_video_url
    clips,          \* committed Clip rows, in insertion order
    clip_files,     \* ids of the clips whose clips/<id>.mp4 exists
    output_files,   \* names of the files that exist under output/
    image_exists,   \* uploads/<filename> of the request exists
    scenes,         \* script["scenes"] of the request
    genPc,          \* position of generate_all_clips
    obj_status,     \* ad_gen.status in generate_all_clips' session
    obj_final,      \* ad_gen.final_video_url in generate_all_clips' session
    completed_clips,\* the count taken after the join
    tasks,          \* clip id of each scheduled task
    semaphore,      \* value of the asyncio.Semaphore
    taskPc,         \* position of each task
    attempt,        \* _poll_wan_task's attempt, per task
    last_status,    \* outcome of the task's latest status request
    success_seen,   \* a status request of the task has reported success
    video_in_reply, \* the submission response carried output.video_url and
                    \* no output.task_id
    submits,        \* submission requests issued, per task
    polls,          \* status requests issued, per task
    poll_result,    \* how _poll_wan_task ended, per task
    placeholder,    \* the task's clip path came from _create_placeholder_video
    exc_placeholder,\* the exception text in _generate_clip's handler mentions
                    \* 'placeholder' or 'WARNING'
    asmPc,          \* position of assemble_video
    asm_runs,       \* invocations of assemble_video so far
    asm_clips,      \* the clips assemble_video read, in query order
    concat_list,    \* the clip files written to the concat list, in order
    asm_log,        \* what the steps of the current assemble_video did
    db_faults,      \* the database may reject the write of an error handler
    response,       \* what POST /api/generate-video answered
    gemini_client,  \* VisionDirector.gemini_client is set
    openai_client,  \* VisionDirector.openai_client is set
    script_cache,   \* the files under cache/scripts: image hash and JSON text
    dir_result,     \* how the latest analyze_and_script ended
    dir_requests    \* the images sent to the vision API so far

vars == <<wan_api_key, ad_status, ad_final, clips, clip_files, output_files,
          image_exists, scenes, genPc, obj_status, obj_final, completed_clips,
          tasks, semaphore, taskPc, attempt, last_status, success_seen,
          video_in_reply, submits, polls,
          poll_result, placeholder, exc_placeholder, asmPc, asm_runs,
          asm_clips, concat_list, asm_log, db_faults, response,
          gemini_client, openai_client, script_cache, dir_result,
          dir_requests>>

asmVars == <<asmPc, asm_runs, asm_clips, concat_list, asm_log>>
dirVars == <<gemini_client, openai_client, script_cache, dir_result, dir_requests>>
sideVars == <<db_faults, response, dirVars>>
storeVars == <<ad_status, ad_final, clips>>
genVars == <<genPc, obj_status, obj_final, completed_clips>>
taskVars == <<tasks, semaphore, taskPc, attempt, last_status, success_seen,
video_in_reply, submits, polls,
              poll_result, placeholder, exc_placeholder>>

Tasks == 1..Len(tasks)

\* the slice left out
TakeAll(seq, n) == seq

\* seq[:n]
Take(seq, n) == SubSeq(seq, 1, IF Len(seq) < n THEN Len(seq) ELSE n)

\* scene.get("id", len(clips) + 1)
SequenceIndex(scene, created) == IF scene = <<>> THEN created + 1 ELSE scene[1]

\* Clip(..., status="pending") for each scene, appended in order
RECURSIVE NewClips(_, _)
NewClips(ss, created) ==
    IF ss = <<>> THEN <<>>
    ELSE <<[sequence_index |-> SequenceIndex(Head(ss), created),
            status |-> "pending",
            local_path |-> NULL]>>
         \o NewClips(Tail(ss), created + 1)

\* db.query(Clip).filter(Clip.status == "completed").count()
CompletedCount == Cardinality({i \in 1..Len(clips) : clips[i].status = "completed"})

\* no task list before generate_all_clips builds one
NoTasks ==
    /\ tasks = <<>>
    /\ semaphore = SemaphoreSize
    /\ taskPc = <<>>
    /\ attempt = <<>>
    /\ last_status = <<>>
    /\ success_seen = <<>>
    /\ video_in_reply = <<>>
    /\ submits = <<>>
    /\ polls = <<>>
    /\ poll_result = <<>>
    /\ placeholder = <<>>
    /\ exc_placeholder = <<>>

Idle ==
    /\ wan_api_key \in BOOLEAN
    /\ output_files = {}
    /\ image_exists = FALSE
    /\ scenes = <<>>
    /\ genPc = "idle"
    /\ obj_status = "absent"
    /\ obj_final = NULL
    /\ completed_clips = 0
    /\ NoTasks
    /\ asmPc = "idle"
    /\ asm_runs = 0
    /\ asm_clips = <<>>
    /\ concat_list = <<>>
    /\ asm_log = {}

\* the service starts on an empty store
InitEmpty ==
    /\ ad_status = "absent"
    /\ ad_final = NULL
    /\ clips = <<>>
    /\ clip_files = {}
    /\ Idle

\* the service starts on a store that holds a generation of a 12-scene
\* script with its 12 clip records: at most one of them not completed, the
\* records inserted in ascending or in descending scene order
InitStored ==
    /\ ad_status \in {"pending", "generating", "failed"}
    /\ ad_final = NULL
    /\ \E other \in 0..ExpectedClips,
          st \in {"pending", "generating", "failed"},
          descending \in BOOLEAN :
        /\ clips = [i \in 1..ExpectedClips |->
                      [sequence_index |-> IF descending THEN ExpectedClips + 1 - i ELSE i,
                       status |-> IF i = other THEN st ELSE "completed",
                       local_path |-> IF i = other THEN NULL ELSE <<i>>]]
        /\ clip_files = {i \in 1..ExpectedClips : i # other}
    /\ Idle

\* POST /api/generate-video has not answered
NoResponse == [status |-> "none", clips |-> <<>>]

\* analyze_and_script has not been called
NotCalled == [image |-> 0, outcome |-> "none", scenes |-> 0, variant |-> 0]

\* no vision credential, nothing cached, analyze_and_script not called
NoDirector ==
    /\ gemini_client = FALSE
    /\ openai_client = FALSE
    /\ script_cache = {}
    /\ dir_result = NotCalled
    /\ dir_requests = {}

\* the service with a database that takes every write; the requests that
\* arrive bring their script with them
Init ==
    /\ InitEmpty \/ InitStored
    /\ response = NoResponse
    /\ db_faults = FALSE
    /\ NoDirector

\* a response that reports the generation as started
ResponseOfStarted(st) == [status |-> "generating", clips |-> <<>>]

\* return {"id": ad_id, "status": ad_status, "clips": []}
ResponseOf(st) == [status |-> st, clips |-> <<>>]

\* POST /api/generate-video: the record is created pending and
\* generate_all_clips is scheduled with the request's script and image
generate_video ==
    /\ ad_status = "absent"
    /\ genPc = "idle"
    /\ asmPc = "idle"
    /\ \E s \in Scripts, img \in BOOLEAN :
        /\ scenes' = s
        /\ image_exists' = img
    /\ ad_status' = "pending"
    /\ ad_final' = NULL
    /\ genPc' = "scheduled"
    /\ response' = ResponseOf(ad_status')
    /\ UNCHANGED <<db_faults, dirVars, asmVars, wan_api_key, clips, clip_files,
                   output_files, obj_status, obj_final, completed_clips, taskVars>>

\* --------------------------------------------------- generate_all_clips

\* db.commit() of generate_all_clips' session: the dirty attributes of ad_gen
\* become the committed row
gen_start ==
    /\ genPc = "scheduled"
    /\ IF ad_status = "absent"
       THEN /\ genPc' = "done"
            /\ UNCHANGED <<ad_status, obj_status, obj_final>>
       ELSE /\ obj_status' = "generating"
            /\ obj_final' = ad_final
            /\ ad_status' = "generating"
            /\ genPc' = "prepare"
    /\ UNCHANGED <<sideVars,
                   asmVars, wan_api_key, ad_final, clips, clip_files, output_files,
                   image_exists, scenes, completed_clips, taskVars>>

\* the clip ids handed to the tasks: zip(clips[:1], scenes_dicts[:1])
ScheduledClips(created) == Take([i \in 1..created |-> i], DebugTaskLimit)

\* an image check that lets every path through
ImageMissingIgnored == FALSE

\* if not os.path.exists(image_path)
ImageMissing == ~image_exists

\* image check, scene check, clip records, semaphore and task list
gen_prepare ==
    /\ genPc = "prepare"
    /\ IF ImageMissing
       THEN \* raise Exception("Product image not found")
            /\ genPc' = "except"
            /\ UNCHANGED <<ad_status, clips, taskVars>>
       ELSE /\ ad_status' = obj_status
            /\ IF scenes = <<>>
               THEN \* raise Exception("Script has no scenes")
                    /\ genPc' = "except"
                    /\ UNCHANGED <<clips, taskVars>>
               ELSE LET created == NewClips(Take(scenes, DebugSceneLimit), 0)
                        sched == ScheduledClips(Len(created))
                        n == Len(sched)
                    IN  /\ clips' = created
                        /\ tasks' = sched
                        /\ semaphore' = SemaphoreSize
                        /\ taskPc' = [t \in 1..n |-> "waiting"]
                        /\ attempt' = [t \in 1..n |-> 0]
                        /\ last_status' = [t \in 1..n |-> "none"]
                        /\ success_seen' = [t \in 1..n |-> FALSE]
                        /\ video_in_reply' = [t \in 1..n |-> FALSE]
                        /\ submits' = [t \in 1..n |-> 0]
                        /\ polls' = [t \in 1..n |-> 0]
                        /\ poll_result' = [t \in 1..n |-> "none"]
                        /\ placeholder' = [t \in 1..n |-> FALSE]
                        /\ exc_placeholder' = [t \in 1..n |-> FALSE]
                        /\ genPc' = "gather"
    /\ UNCHANGED <<sideVars, asmVars, wan_api_key, ad_final, clip_files, output_files,
                   image_exists, scenes, obj_status, obj_final, completed_clips>>

\* a join that does not wait for the tasks
GatherReturnsUnawaited == TRUE

\* asyncio.gather(*tasks) returns when every task has returned
GatherReturns == \A t \in Tasks : taskPc[t] = "done"

\* await asyncio.gather(*tasks): every task returned
gather_join ==
    /\ genPc = "gather"
    /\ GatherReturns
    /\ genPc' = "gate"
    /\ UNCHANGED <<sideVars, asmVars, wan_api_key, storeVars, clip_files, output_files,
                   image_exists, scenes, obj_status, obj_final,
                   completed_clips, taskVars>>

\* await asyncio.gather(*tasks): the first exception of a task propagates
gather_raise ==
    /\ genPc = "gather"
    /\ \E t \in Tasks : taskPc[t] = "raised"
    /\ genPc' = "except"
    /\ UNCHANGED <<sideVars, asmVars, wan_api_key, storeVars, clip_files, output_files,
                   image_exists, scenes, obj_status, obj_final,
                   completed_clips, taskVars>>

\* the gate with its threshold off by one
GatePassesFromZero(count) == count >= GateThreshold - 1

\* if completed_clips >= 1
GatePasses(count) == count >= GateThreshold

\* db.refresh(ad_gen), the count, and the branch on it
gate_count ==
    /\ genPc = "gate"
    /\ completed_clips' = CompletedCount
    /\ IF GatePasses(CompletedCount)
       THEN /\ obj_status' = "completed"
            /\ obj_final' = ad_final
            /\ genPc' = "gate_final"
            /\ UNCHANGED ad_status
       ELSE /\ obj_status' = "failed"
            /\ obj_final' = ad_final
            /\ ad_status' = "failed"
            /\ genPc' = "done"
    /\ UNCHANGED <<sideVars,
                   asmVars, wan_api_key, ad_final, clips, clip_files, output_files,
                   image_exists, scenes, taskVars>>

\* .filter(status == "completed").order_by(Clip.sequence_index).first()
FirstCompleted ==
    LET done == {i \in 1..Len(clips) : clips[i].status = "completed"}
    IN  IF done = {} THEN 0
        ELSE CHOOSE i \in done : \A j \in done :
                 \/ clips[i].sequence_index < clips[j].sequence_index
                 \/ (clips[i].sequence_index = clips[j].sequence_index /\ i <= j)

\* the copy of the first completed clip and the commit of "completed"
gate_final ==
    /\ genPc = "gate_final"
    /\ LET first_clip == FirstCompleted
       IN  IF first_clip # 0 /\ clips[first_clip].local_path # NULL
           THEN IF ShutilBound
                THEN /\ output_files' = output_files \cup {"final"}
                     /\ obj_final' = FinalUrl
                     /\ ad_status' = obj_status
                     /\ ad_final' = FinalUrl
                     /\ genPc' = "done"
                ELSE \* NameError: name 'shutil' is not defined
                     /\ genPc' = "except"
                     /\ UNCHANGED <<ad_status, ad_final, obj_final, output_files>>
           ELSE /\ ad_status' = obj_status
                /\ ad_final' = obj_final
                /\ genPc' = "done"
                /\ UNCHANGED <<obj_final, output_files>>
    /\ UNCHANGED <<sideVars, asmVars, wan_api_key, clips, clip_files, image_exists, scenes,
                   obj_status, completed_clips, taskVars>>

\* a handler that commits the record as it finds it
ExceptStatusKept == obj_status

\* the status generate_all_clips' handler writes
ExceptStatus == "failed"

\* what a write of an error handler can end in: TRUE when the database took it
DbWrites == IF db_faults THEN BOOLEAN ELSE {TRUE}

\* except Exception: re-query the record, mark it failed, commit. The query
\* and the commit stand in no try of their own: a database error raised
\* here leaves generate_all_clips.
gen_except ==
    /\ genPc = "except"
    /\ \E db_ok \in DbWrites :
        IF db_ok
        THEN /\ IF ad_status = "absent"
                THEN UNCHANGED <<ad_status, ad_final, obj_status>>
                ELSE /\ obj_status' = ExceptStatus
                     /\ ad_status' = ExceptStatus
                     /\ ad_final' = obj_final
             /\ genPc' = "done"
        ELSE /\ genPc' = "crashed"
             /\ UNCHANGED <<ad_status, ad_final, obj_status>>
    /\ UNCHANGED <<sideVars,
                   asmVars, wan_api_key, clips, clip_files, output_files, image_exists,
                   scenes, obj_final, completed_clips, taskVars>>

\* ------------------------------------------------------- the clip tasks

\* a release that gives no slot back
SemReleaseLeaks(v) == v

\* an acquire that takes no slot
SemAcquireKeepsSlot(v) == v

\* asyncio.Semaphore: acquire takes a slot, release gives it back
SemAcquire(v) == v - 1
SemRelease(v) == v + 1

\* a task is inside `async with semaphore` from its acquire to its release
InGate(t) == taskPc[t] \notin {"waiting", "done", "raised"}

\* a write that inserts a row instead of updating the task's own
SetClipInsert(id, st, path) ==
    Append(clips, [sequence_index |-> clips[id].sequence_index,
                   status |-> st,
                   local_path |-> path])

\* clip.status = ...; clip.local_path = ...; db.commit() on the task's clip
SetClip(id, st, path) ==
    [clips EXCEPT ![id] = [@ EXCEPT !.status = st, !.local_path = path]]

\* async with semaphore: wait for a slot
sem_acquire(t) ==
    /\ taskPc[t] = "waiting"
    /\ semaphore > 0
    /\ semaphore' = SemAcquire(semaphore)
    /\ taskPc' = [taskPc EXCEPT ![t] = "start"]
    /\ UNCHANGED <<sideVars, asmVars, wan_api_key, storeVars, clip_files, output_files,
                   image_exists, scenes, genVars, tasks, attempt, last_status, success_seen,
                   video_in_reply,
                   submits, polls, poll_result, placeholder, exc_placeholder>>

\* leaving `async with semaphore`, by return or by exception
sem_release(t) ==
    /\ taskPc[t] \in {"returning", "raising"}
    /\ semaphore' = SemRelease(semaphore)
    /\ taskPc' = [taskPc EXCEPT ![t] = IF taskPc[t] = "returning" THEN "done" ELSE "raised"]
    /\ UNCHANGED <<sideVars, asmVars, wan_api_key, storeVars, clip_files, output_files,
                   image_exists, scenes, genVars, tasks, attempt, last_status, success_seen,
                   video_in_reply,
                   submits, polls, poll_result, placeholder, exc_placeholder>>

\* _generate_clip up to the call of _call_wan_api: the clip is "generating"
generate_clip_begin(t) ==
    /\ taskPc[t] = "start"
    /\ clips' = SetClip(tasks[t], "generating", clips[tasks[t]].local_path)
    /\ taskPc' = [taskPc EXCEPT ![t] = "call"]
    /\ UNCHANGED <<sideVars,
                   asmVars, wan_api_key, ad_status, ad_final, clip_files, output_files,
                   image_exists, scenes, genVars, tasks, semaphore, attempt,
                   last_status, success_seen,
                   video_in_reply, submits, polls, poll_result, placeholder,
                   exc_placeholder>>

\* the credential test inverted
NoCredentialInverted == wan_api_key

\* if not self.wan_api_key
NoCredential == ~wan_api_key

\* _call_wan_api without a credential: straight to the placeholder
call_no_key(t) ==
    /\ taskPc[t] = "call"
    /\ NoCredential
    /\ taskPc' = [taskPc EXCEPT ![t] = "placeholder"]
    /\ UNCHANGED <<sideVars, asmVars, wan_api_key, storeVars, clip_files, output_files,
                   image_exists, scenes, genVars, tasks, semaphore, attempt,
                   last_status, success_seen,
                   video_in_reply, submits, polls, poll_result, placeholder,
                   exc_placeholder>>

\* reading or decoding the image fails before any request is made
call_local_error(t) ==
    /\ taskPc[t] = "call"
    /\ ~NoCredential
    /\ taskPc' = [taskPc EXCEPT ![t] = "placeholder"]
    /\ UNCHANGED <<sideVars, asmVars, wan_api_key, storeVars, clip_files, output_files,
                   image_exists, scenes, genVars, tasks, semaphore, attempt,
                   last_status, success_seen,
                   video_in_reply, submits, polls, poll_result, placeholder,
                   exc_placeholder>>

\* what the submission request can end in
SubmitOutcomes ==
    {"task_id", "request_id_video", "sync_video", "no_task_no_video",
     "http_error", "api_error", "timeout", "conn_dns", "conn_other"}

\* the responses that carry output.video_url and no output.task_id:
\* "request_id_video" has a request_id at its top level, "sync_video" has not
VideoInReply(outcome) == outcome \in {"request_id_video", "sync_video"}

\* where _call_wan_api goes after the submission request
AfterSubmit(outcome) ==
    CASE outcome \in {"task_id", "request_id_video"} -> "poll"
      [] outcome = "sync_video" -> "sync_download"
      [] outcome = "conn_other" -> "handler"
      [] OTHER -> "placeholder"

\* requests.post(self.wan_api_url, ...) and the handling of its outcome
submit(t) ==
    /\ taskPc[t] = "call"
    /\ ~NoCredential
    /\ submits' = [submits EXCEPT ![t] = @ + 1]
    /\ \E outcome \in SubmitOutcomes, text \in BOOLEAN :
        /\ taskPc' = [taskPc EXCEPT ![t] = AfterSubmit(outcome)]
        /\ exc_placeholder' =
               [exc_placeholder EXCEPT ![t] = (outcome = "conn_other") /\ text]
        /\ video_in_reply' = [video_in_reply EXCEPT ![t] = VideoInReply(outcome)]
    /\ UNCHANGED <<sideVars, asmVars, wan_api_key, storeVars, clip_files, output_files,
                   image_exists, scenes, genVars, tasks, semaphore, attempt,
                   last_status, success_seen, polls, poll_result, placeholder>>

\* what the download of a synchronous result can end in
DownloadOutcomes == {"ok", "http_error", "timeout", "conn_dns", "conn_other"}

\* requests.get(video_url) of a response with a video and no task id
sync_download(t) ==
    /\ taskPc[t] = "sync_download"
    /\ \E outcome \in DownloadOutcomes, text \in BOOLEAN :
        /\ taskPc' = [taskPc EXCEPT ![t] =
               CASE outcome = "ok" -> "got_path"
                 [] outcome = "conn_other" -> "handler"
                 [] OTHER -> "placeholder"]
        /\ clip_files' = IF outcome = "ok" THEN clip_files \cup {tasks[t]}
                         ELSE clip_files
        /\ exc_placeholder' =
               [exc_placeholder EXCEPT ![t] = (outcome = "conn_other") /\ text]
    /\ UNCHANGED <<sideVars,
                   asmVars, wan_api_key, storeVars, output_files, image_exists, scenes,
                   genVars, tasks, semaphore, attempt, last_status, success_seen,
                   video_in_reply, submits,
                   polls, poll_result, placeholder>>

\* _create_placeholder_video: the path is returned whether or not ffmpeg
\* wrote the file
create_placeholder_video(t) ==
    /\ taskPc[t] = "placeholder"
    /\ \E ffmpeg_ok \in BOOLEAN :
        clip_files' = IF ffmpeg_ok THEN clip_files \cup {tasks[t]} ELSE clip_files
    /\ placeholder' = [placeholder EXCEPT ![t] = TRUE]
    /\ taskPc' = [taskPc EXCEPT ![t] = "got_path"]
    /\ UNCHANGED <<sideVars,
                   asmVars, wan_api_key, storeVars, output_files, image_exists, scenes,
                   genVars, tasks, semaphore, attempt, last_status, success_seen,
                   video_in_reply, submits,
                   polls, poll_result, exc_placeholder>>

\* --------------------------------------------------------- _poll_wan_task

\* what one status request can end in: "error" is a non-200 response, an API
\* error code or a failed request; "unknown" a response without a status
PollOutcomes ==
    {"pending", "unknown", "error", "failed", "succeeded", "succeeded_no_url"}

\* a loop test that admits one pass too many
PollContinuesOneMore(a) == a <= max_attempts

\* while attempt < max_attempts
PollContinues(a) == a < max_attempts

\* if attempt >= max_attempts - 1: raise
PollGivesUp(a) == a >= max_attempts - 1

\* the outcomes whose branch of the loop body raises inside the try
PollRaises(outcome) == outcome \in {"error", "failed", "succeeded_no_url"}

\* except Exception as e: give up at the ceiling, else sleep and count.
\* The error raised here is caught by _call_wan_api, which falls back to the
\* placeholder.
PollExcept(t) ==
    IF PollGivesUp(attempt[t])
    THEN /\ poll_result' = [poll_result EXCEPT ![t] = "raised"]
         /\ taskPc' = [taskPc EXCEPT ![t] = "placeholder"]
         /\ UNCHANGED attempt
    ELSE /\ attempt' = [attempt EXCEPT ![t] = @ + 1]
         /\ taskPc' = [taskPc EXCEPT ![t] = "poll"]
         /\ UNCHANGED poll_result

\* one pass of the loop body: the status request and the branch on its answer
poll_request(t) ==
    /\ taskPc[t] = "poll"
    /\ PollContinues(attempt[t])
    /\ polls' = [polls EXCEPT ![t] = @ + 1]
    /\ \E outcome \in PollOutcomes :
        /\ last_status' = [last_status EXCEPT ![t] = outcome]
        /\ success_seen' = [success_seen EXCEPT ![t] =
               @ \/ outcome \in {"succeeded", "succeeded_no_url"}]
        /\ IF outcome = "succeeded"
           THEN /\ taskPc' = [taskPc EXCEPT ![t] = "poll_download"]
                /\ UNCHANGED <<attempt, poll_result>>
           ELSE IF PollRaises(outcome)
           THEN PollExcept(t)
           ELSE \* still processing: await asyncio.sleep(5); attempt += 1
                /\ attempt' = [attempt EXCEPT ![t] = @ + 1]
                /\ UNCHANGED <<taskPc, poll_result>>
    /\ UNCHANGED <<sideVars, asmVars, wan_api_key, storeVars, clip_files, output_files,
                   image_exists, scenes, genVars, tasks, semaphore, submits,
                   video_in_reply, placeholder, exc_placeholder>>

\* requests.get(video_url) after a success status, and the save of the clip
poll_download(t) ==
    /\ taskPc[t] = "poll_download"
    /\ \E ok \in BOOLEAN :
        IF ok
        THEN /\ clip_files' = clip_files \cup {tasks[t]}
             /\ poll_result' = [poll_result EXCEPT ![t] = "returned"]
             /\ taskPc' = [taskPc EXCEPT ![t] = "got_path"]
             /\ UNCHANGED attempt
        ELSE /\ PollExcept(t)
             /\ UNCHANGED clip_files
    /\ UNCHANGED <<sideVars,
                   asmVars, wan_api_key, storeVars, output_files, image_exists, scenes,
                   genVars, tasks, semaphore, last_status, success_seen,
                   video_in_reply, submits, polls,
                   placeholder, exc_placeholder>>

\* the loop ran out: raise Exception("... did not complete within timeout")
poll_timeout(t) ==
    /\ taskPc[t] = "poll"
    /\ ~PollContinues(attempt[t])
    /\ poll_result' = [poll_result EXCEPT ![t] = "raised"]
    /\ taskPc' = [taskPc EXCEPT ![t] = "placeholder"]
    /\ UNCHANGED <<sideVars, asmVars, wan_api_key, storeVars, clip_files, output_files,
                   image_exists, scenes, genVars, tasks, semaphore, attempt,
                   last_status, success_seen,
                   video_in_reply, submits, polls, placeholder, exc_placeholder>>

\* ------------------------------------------------- _generate_clip, the end

\* clip.local_path = clip_path; clip.status = "completed"; commit
generate_clip_finish(t) ==
    /\ taskPc[t] = "got_path"
    /\ clips' = SetClip(tasks[t], "completed", <<tasks[t]>>)
    /\ taskPc' = [taskPc EXCEPT ![t] = "returning"]
    /\ UNCHANGED <<sideVars,
                   asmVars, wan_api_key, ad_status, ad_final, clip_files, output_files,
                   image_exists, scenes, genVars, tasks, semaphore, attempt,
                   last_status, success_seen,
                   video_in_reply, submits, polls, poll_result, placeholder,
                   exc_placeholder>>

\* a handler that puts the clip back in the queue
HandlerStatusRequeue(t) == "pending"

\* the status _generate_clip's handler gives the clip
HandlerStatus(t) ==
    IF exc_placeholder[t]
    THEN IF clips[tasks[t]].local_path # NULL /\ tasks[t] \in clip_files
         THEN "completed"
         ELSE "failed"
    ELSE "failed"

\* if 'placeholder' not in error_msg.lower() and 'WARNING' not in error_msg: raise
HandlerReraises(t) == ~exc_placeholder[t]

\* except Exception as e: mark the clip, commit, re-raise unless the text
\* mentions the placeholder
generate_clip_except(t) ==
    /\ taskPc[t] = "handler"
    /\ \E db_ok \in DbWrites :
        IF db_ok
        THEN clips' = SetClip(tasks[t], HandlerStatus(t), clips[tasks[t]].local_path)
        ELSE \* except Exception as db_error: print(...)
             UNCHANGED clips
    /\ taskPc' = [taskPc EXCEPT ![t] = IF HandlerReraises(t) THEN "raising" ELSE "returning"]
    /\ UNCHANGED <<sideVars,
                   asmVars, wan_api_key, ad_status, ad_final, clip_files, output_files,
                   image_exists, scenes, genVars, tasks, semaphore, attempt,
                   last_status, success_seen,
                   video_in_reply, submits, polls, poll_result, placeholder,
                   exc_placeholder>>

\* --------------------------------------------------------- assemble_video

\* the first clip in insertion order, the ORDER BY dropped
FirstByInsertion(ids) == CHOOSE i \in ids : \A j \in ids : i <= j

\* the smallest element of a non-empty set of clip ids in ORDER BY
\* sequence_index (equal indices: in insertion order)
FirstBySequence(ids) ==
    CHOOSE i \in ids : \A j \in ids :
        \/ clips[i].sequence_index < clips[j].sequence_index
        \/ (clips[i].sequence_index = clips[j].sequence_index /\ i <= j)

RECURSIVE OrderBySequence(_)
OrderBySequence(ids) ==
    IF ids = {} THEN <<>>
    ELSE LET i == FirstBySequence(ids)
         IN  <<i>> \o OrderBySequence(ids \ {i})

\* .filter(Clip.status == "completed").order_by(Clip.sequence_index).all()
CompletedInOrder ==
    OrderBySequence({i \in 1..Len(clips) : clips[i].status = "completed"})

\* the count check left out
WrongClipCountUnchecked(found) == FALSE

\* a count check that lets a generation with one clip short through
WrongClipCountLax(found) == Len(found) < ExpectedClips - 1

\* if len(clips) != 12
WrongClipCount(found) == Len(found) # ExpectedClips

\* the record lookup, the clip query and the count check
asm_start ==
    /\ asmPc = "idle"
    /\ genPc \in {"idle", "done", "crashed"}
    /\ asm_runs < MaxAsmRuns
    /\ IF ad_status = "absent"
       THEN \* "Ad generation not found": return
            UNCHANGED <<ad_status, asmPc, asm_clips, asm_runs, asm_log>>
       ELSE /\ asm_runs' = asm_runs + 1
            /\ asm_clips' = CompletedInOrder
            /\ IF WrongClipCount(CompletedInOrder)
               THEN /\ ad_status' = "failed"
                    /\ asm_log' = {"wrong_count"}
                    /\ asmPc' = "except"
               ELSE /\ asm_log' = IF ad_status = "completed"
                                  THEN {"was_completed"} ELSE {}
                    /\ asmPc' = "concat_file"
                    /\ UNCHANGED ad_status
    /\ UNCHANGED <<sideVars, wan_api_key, ad_final, clips, clip_files, output_files,
                   image_exists, scenes, genVars, taskVars, concat_list>>

\* if clip.local_path and os.path.exists(clip.local_path)
HasFile(i) == clips[i].local_path # NULL /\ clips[i].local_path[1] \in clip_files

\* the concat list: one line per clip that has its file, in query order
asm_concat_file ==
    /\ asmPc = "concat_file"
    /\ concat_list' = SelectSeq(asm_clips, HasFile)
    /\ output_files' = output_files \cup {"concat"}
    /\ asmPc' = "concatenate"
    /\ UNCHANGED <<sideVars, wan_api_key, storeVars, clip_files, image_exists, scenes,
                   genVars, taskVars, asm_runs, asm_clips, asm_log>>

\* _concatenate_clips: the tool fails on an empty list and may fail anyway
asm_concatenate ==
    /\ asmPc = "concatenate"
    /\ \E ok \in BOOLEAN :
        IF ok /\ concat_list # <<>>
        THEN /\ output_files' = output_files \cup {"temp"}
             /\ asm_log' = asm_log \cup {"concat_ok"}
             /\ asmPc' = "normalize_audio"
        ELSE \* raise Exception("FFmpeg concat failed")
             /\ asm_log' = asm_log \cup {"concat_failed"}
             /\ asmPc' = "except"
             /\ UNCHANGED output_files
    /\ UNCHANGED <<sideVars, wan_api_key, storeVars, clip_files, image_exists, scenes,
                   genVars, taskVars, asm_runs, asm_clips, concat_list>>

\* a normalization stage without its fallback
NormalizeNoFallback(ok) == FALSE

\* if result.returncode != 0: shutil.copy(input_path, output_path)
NormalizeFallsBack(ok) == ~ok

\* _normalize_audio: the tool's output, or a copy of the input when it fails
asm_normalize_audio ==
    /\ asmPc = "normalize_audio"
    /\ \E ok \in BOOLEAN :
        IF ok
        THEN /\ output_files' = output_files \cup {"audio_norm"}
             /\ asm_log' = asm_log \cup {"audio_ok"}
             /\ asmPc' = "normalize_color"
        ELSE IF NormalizeFallsBack(ok)
        THEN /\ output_files' = output_files \cup {"audio_norm"}
             /\ asm_log' = asm_log \cup {"audio_error", "audio_copy"}
             /\ asmPc' = "normalize_color"
        ELSE /\ asm_log' = asm_log \cup {"audio_error"}
             /\ asmPc' = "except"
             /\ UNCHANGED output_files
    /\ UNCHANGED <<sideVars, wan_api_key, storeVars, clip_files, image_exists, scenes,
                   genVars, taskVars, asm_runs, asm_clips, concat_list>>

\* _normalize_color: the tool's output, or a copy of the input when it fails
asm_normalize_color ==
    /\ asmPc = "normalize_color"
    /\ \E ok \in BOOLEAN :
        IF ok
        THEN /\ output_files' = output_files \cup {"final"}
             /\ asm_log' = asm_log \cup {"color_ok"}
             /\ asmPc' = "commit"
        ELSE IF NormalizeFallsBack(ok)
        THEN /\ output_files' = output_files \cup {"final"}
             /\ asm_log' = asm_log \cup {"color_error", "color_copy"}
             /\ asmPc' = "commit"
        ELSE /\ asm_log' = asm_log \cup {"color_error"}
             /\ asmPc' = "except"
             /\ UNCHANGED output_files
    /\ UNCHANGED <<sideVars, wan_api_key, storeVars, clip_files, image_exists, scenes,
                   genVars, taskVars, asm_runs, asm_clips, concat_list>>

\* the reference left unset
AsmFinalUrlUnset == NULL

\* the final video reference assemble_video records
AsmFinalUrl == FinalUrl

\* ad_gen.final_video_url = ...; ad_gen.status = "completed"; db.commit()
asm_commit ==
    /\ asmPc = "commit"
    /\ ad_final' = AsmFinalUrl
    /\ ad_status' = "completed"
    /\ asm_log' = asm_log \cup {"committed"}
    /\ asmPc' = "cleanup"
    /\ UNCHANGED <<sideVars, wan_api_key, clips, clip_files, output_files, image_exists,
                   scenes, genVars, taskVars, asm_runs, asm_clips, concat_list>>

\* the removal of the intermediate files, then _cleanup_clips; a removal of
\* an intermediate file that fails raises, one of a clip file is skipped
asm_cleanup ==
    /\ asmPc = "cleanup"
    /\ \E removed \in BOOLEAN :
        IF removed
        THEN /\ output_files' = output_files \ {"temp", "audio_norm", "concat"}
             /\ \E kept \in {{}} \cup {{asm_clips[k]} : k \in 1..Len(asm_clips)} :
                    clip_files' = (clip_files \ {asm_clips[k] : k \in 1..Len(asm_clips)})
                                  \cup (kept \cap clip_files)
             /\ asmPc' = "idle"
             /\ UNCHANGED asm_log
        ELSE /\ asm_log' = asm_log \cup {"remove_failed"}
             /\ asmPc' = "except"
             /\ UNCHANGED <<output_files, clip_files>>
    /\ UNCHANGED <<sideVars, wan_api_key, storeVars, image_exists, scenes, genVars,
                   taskVars, asm_runs, asm_clips, concat_list>>

\* a handler that leaves the status as it finds it
AsmExceptStatusKept == ad_status

\* ad_gen.status = "failed" in assemble_video's handler
AsmExceptStatus == "failed"

\* except Exception: db.refresh(ad_gen); ad_gen.status = "failed"; commit
asm_except ==
    /\ asmPc = "except"
    /\ \E db_ok \in DbWrites :
        IF db_ok
        THEN /\ ad_status' = AsmExceptStatus
             /\ UNCHANGED asm_log
        ELSE \* except Exception as db_error: print(...)
             /\ asm_log' = asm_log \cup {"handler_db_error"}
             /\ UNCHANGED ad_status
    /\ asmPc' = "idle"
    /\ UNCHANGED <<sideVars, wan_api_key, ad_final, clips, clip_files, output_files,
                   image_exists, scenes, genVars, taskVars, asm_runs,
                   asm_clips, concat_list>>

\* ------------------------------------- VisionDirector.analyze_and_script

\* what the vision API can answer: no usable text ("error"), text that is
\* not JSON ("bad_json"), JSON without "scenes" ("no_scenes"), or a script
\* with so many scenes, in one of its wordings
Replies ==
    {[kind |-> k, scenes |-> 0, variant |-> 0] : k \in {"error", "bad_json", "no_scenes"}}
    \cup {[kind |-> "script", scenes |-> n, variant |-> v] :
              n \in 0..MaxReplyScenes, v \in 1..MaxVariants}

\* a check that takes a script of any length
ValidScriptAnyCount(reply) == reply.kind = "script"

\* if "scenes" not in script or len(script["scenes"]) != 12: raise
ValidScript(reply) == reply.kind = "script" /\ reply.scenes = ExpectedScenes

\* json.dump(script, f, indent=2): the text of the cache file
JsonDump(script) == <<script.scenes, script.variant>>

\* json.load(f): the script read back from the text of a cache file
JsonLoad(text) == [scenes |-> text[1], variant |-> text[2]]

\* the images (by the md5 of their bytes) that have a cache file
CachedImages == {c.image : c \in script_cache}

\* a director that never finds a cache file
CacheHitNever(image) == FALSE

\* if os.path.exists(cache_path)
CacheHit(image) == image \in CachedImages

\* with open(cache_path, 'w') as f: json.dump(script, f, indent=2)
CacheWrite(image, script) ==
    {c \in script_cache : c.image # image}
        \cup {[image |-> image, text |-> JsonDump(script)]}

\* a director that answers an empty script when it has no credential
NoCredentialResultEmpty == "script"

\* raise Exception("No vision API key configured. ...")
NoCredentialResult == "raised"

\* _get_image_hash opens the image, path 0 names no file: FileNotFoundError
dir_no_image ==
    /\ dir_result' = [image |-> 0, outcome |-> "raised", scenes |-> 0, variant |-> 0]
    /\ UNCHANGED <<db_faults, response, gemini_client, openai_client, script_cache,
                   dir_requests,
                   asmVars, wan_api_key, storeVars, clip_files, output_files,
                   image_exists, scenes, genVars, taskVars>>

\* if os.path.exists(cache_path): return json.load(f)
dir_cache_hit ==
    /\ \E image \in 1..MaxImages :
        /\ CacheHit(image)
        /\ \E c \in script_cache :
            /\ c.image = image
            /\ dir_result' = [image |-> image, outcome |-> "cached",
                              scenes |-> JsonLoad(c.text).scenes,
                              variant |-> JsonLoad(c.text).variant]
    /\ UNCHANGED <<db_faults, response, gemini_client, openai_client, script_cache,
                   dir_requests,
                   asmVars, wan_api_key, storeVars, clip_files, output_files,
                   image_exists, scenes, genVars, taskVars>>

\* the call of the vision API, the check of its script, the write of the cache
DirAnalyze(image, via) ==
    /\ dir_requests' = dir_requests \cup {image}
    /\ \E reply \in Replies :
        IF ValidScript(reply)
        THEN /\ dir_result' = [image |-> image, outcome |-> via,
                               scenes |-> reply.scenes, variant |-> reply.variant]
             /\ script_cache' =
                    CacheWrite(image, [scenes |-> reply.scenes, variant |-> reply.variant])
        ELSE /\ dir_result' = [image |-> image, outcome |-> "raised",
                               scenes |-> reply.scenes, variant |-> reply.variant]
             /\ UNCHANGED script_cache

\* if self.gemini_client: script = await self._analyze_with_gemini(image_path)
dir_gemini ==
    /\ gemini_client
    /\ \E image \in 1..MaxImages : ~CacheHit(image) /\ DirAnalyze(image, "gemini")
    /\ UNCHANGED <<db_faults, response, gemini_client, openai_client,
                   asmVars, wan_api_key, storeVars, clip_files, output_files,
                   image_exists, scenes, genVars, taskVars>>

\* elif self.openai_client: script = await self._analyze_with_openai(image_data)
dir_openai ==
    /\ ~gemini_client
    /\ openai_client
    /\ \E image \in 1..MaxImages : ~CacheHit(image) /\ DirAnalyze(image, "openai")
    /\ UNCHANGED <<db_faults, response, gemini_client, openai_client,
                   asmVars, wan_api_key, storeVars, clip_files, output_files,
                   image_exists, scenes, genVars, taskVars>>

\* else: raise Exception("No vision API key configured. ...")
dir_no_credential ==
    /\ ~gemini_client
    /\ ~openai_client
    /\ \E image \in 1..MaxImages :
        /\ ~CacheHit(image)
        /\ dir_result' = [image |-> image, outcome |-> NoCredentialResult,
                          scenes |-> 0, variant |-> 0]
    /\ UNCHANGED <<db_faults, response, gemini_client, openai_client, script_cache,
                   dir_requests,
                   asmVars, wan_api_key, storeVars, clip_files, output_files,
                   image_exists, scenes, genVars, taskVars>>

Next ==
    \/ generate_video
    \/ gen_start
    \/ gen_prepare
    \/ gather_join
    \/ gather_raise
    \/ gate_count
    \/ gate_final
    \/ gen_except
    \/ \E t \in Tasks : sem_acquire(t)
    \/ \E t \in Tasks : generate_clip_begin(t)
    \/ \E t \in Tasks : call_no_key(t)
    \/ \E t \in Tasks : call_local_error(t)
    \/ \E t \in Tasks : submit(t)
    \/ \E t \in Tasks : sync_download(t)
    \/ \E t \in Tasks : create_placeholder_video(t)
    \/ \E t \in Tasks : poll_request(t)
    \/ \E t \in Tasks : poll_download(t)
    \/ \E t \in Tasks : poll_timeout(t)
    \/ \E t \in Tasks : generate_clip_finish(t)
    \/ \E t \in Tasks : generate_clip_except(t)
    \/ \E t \in Tasks : sem_release(t)
    \/ asm_start
    \/ asm_concat_file
    \/ asm_concatenate
    \/ asm_normalize_audio
    \/ asm_normalize_color
    \/ asm_commit
    \/ asm_cleanup
    \/ asm_except

Spec == Init /\ [][Next]_vars

\* a task inside _poll_wan_task is resumed: its request returns (timeout=30,
\* timeout=300) and its sleep ends
PollStep == \E t \in Tasks : poll_request(t) \/ poll_download(t) \/ poll_timeout(t)

FairSpec == Spec /\ WF_vars(PollStep)

\* generate_all_clips is resumed by the event loop: its commits return and
\* the gather is woken when its tasks have ended
GenStep ==
    \/ gen_start
    \/ gen_prepare
    \/ gather_join
    \/ gather_raise
    \/ gate_count
    \/ gate_final
    \/ gen_except

\* a clip task is resumed by the event loop: the semaphore wakes it, its
\* requests return (every requests call carries a timeout), its sleeps end
TaskStep ==
    \E t \in Tasks :
        \/ sem_acquire(t)
        \/ generate_clip_begin(t)
        \/ call_no_key(t)
        \/ call_local_error(t)
        \/ submit(t)
        \/ sync_download(t)
        \/ create_placeholder_video(t)
        \/ poll_request(t)
        \/ poll_download(t)
        \/ poll_timeout(t)
        \/ generate_clip_finish(t)
        \/ generate_clip_except(t)
        \/ sem_release(t)

\* the service on an event loop that runs every task that can run
LiveSpec == Spec /\ WF_vars(GenStep \/ TaskStep)

\* the same service with a database that may reject the write of an error
\* handler
FaultInit ==
    /\ InitEmpty \/ InitStored
    /\ response = NoResponse
    /\ db_faults = TRUE
    /\ NoDirector

FaultSpec == FaultInit /\ [][Next]_vars

\* analyze_and_script on its inputs: the clients the constructor made, the
\* scripts cached by earlier calls (each passed the check of its scenes),
\* the image of the call and the answer of the vision API
DirectorInit ==
    /\ InitEmpty
    /\ response = NoResponse
    /\ db_faults = FALSE
    /\ gemini_client \in BOOLEAN
    /\ openai_client \in BOOLEAN
    /\ \E cached \in SUBSET (1..MaxImages) :
        \E variant \in [cached -> 1..MaxVariants] :
            script_cache =
                {[image |-> i,
                  text |-> JsonDump([scenes |-> ExpectedScenes, variant |-> variant[i]])] :
                     i \in cached}
    /\ dir_result = NotCalled
    /\ dir_requests = {}

DirectorNext ==
    \/ dir_no_image
    \/ dir_cache_hit
    \/ dir_gemini
    \/ dir_openai
    \/ dir_no_credential

DirectorSpec == DirectorInit /\ [][DirectorNext]_vars

\* ------------------------------------------------------------ the claims

Resolved(t) == taskPc[t] \in {"done", "raised"}
AllResolved == tasks # <<>> /\ \A t \in Tasks : Resolved(t)
ClipOf(t) == clips[tasks[t]]

\* C1: in every reachable state, a generation whose committed status is
\* "completed" has every one of its clip records in status "completed".
C1_CompletedImpliesAllClipsCompleted ==
    ad_status = "completed" =>
        \A i \in 1..Len(clips) : clips[i].status = "completed"

\* assemble_video has committed "completed" for a generation with clips
C1_Witness ==
    /\ ad_status = "completed"
    /\ asmPc = "cleanup"
    /\ Len(clips) = ExpectedClips

\* C2: once every clip task has resolved, a generation with a failed clip is
\* never "completed", and when generate_all_clips has ended it is "failed".
C2_FailedClipFailsGeneration ==
    (AllResolved /\ \E i \in 1..Len(clips) : clips[i].status = "failed") =>
        /\ ad_status # "completed"
        /\ genPc = "done" => ad_status = "failed"

\* generate_all_clips ended with its one clip failed
C2_Witness ==
    /\ AllResolved
    /\ genPc = "done"
    /\ \E i \in 1..Len(clips) : clips[i].status = "failed"
    /\ ad_status = "failed"

\* C3: in every reachable state, a generation whose committed status is
\* "completed" has a final video reference.
C3_CompletedHasFinalVideo ==
    ad_status = "completed" => ad_final # NULL

\* a generation is "completed" with its reference, the assembler being done
C3_Witness ==
    /\ ad_status = "completed"
    /\ ad_final = FinalUrl
    /\ asmPc = "idle"
    /\ asm_runs > 0

\* C4 as claimed: the step that takes the count after the join writes
\* "assembling" when the count equals the number of scenes of the script, and
\* "failed" otherwise.
C4_GateAssemblesOnFullCount ==
    [][(genPc = "gate" /\ genPc' # "gate") =>
          IF CompletedCount = Len(scenes)
          THEN ad_status' = "assembling" \/ obj_status' = "assembling"
          ELSE ad_status' = "failed"]_vars

\* C5 as claimed: a script of N scenes gets N clip records and N tasks.
C5_OneClipPerScene ==
    genPc = "gather" => (Len(clips) = Len(scenes) /\ Len(tasks) = Len(scenes))

C7_ErrorsFailTheClip ==
    \A t \in Tasks :
        /\ submits[t] <= 1
        /\ (wan_api_key /\ Resolved(t) /\ submits[t] = 1
               /\ (placeholder[t] \/ taskPc[t] = "raised"))
           => ClipOf(t).status = "failed"

InPoll(t) == t \in Tasks /\ taskPc[t] \in {"poll", "poll_download"}
PollEnded(t) == t \in Tasks /\ polls[t] > 0 /\ ~InPoll(t)

\* the loop issues at most max_attempts status requests, one per attempt, and
\* ends either returning the clip it saved or raising
PollBounded ==
    \A t \in Tasks :
        /\ polls[t] <= max_attempts
        /\ attempt[t] <= max_attempts
        /\ poll_result[t] = "none" <=> ~PollEnded(t)
        /\ poll_result[t] = "returned" =>
               last_status[t] = "succeeded" /\ tasks[t] \in clip_files

\* C8: _poll_wan_task always terminates: it issues at most 120 status
\* requests whatever the remote answers, and it ends by raising unless a
\* request led to a saved clip.
C8_PollTerminates ==
    /\ []PollBounded
    /\ \A t \in 1..DebugTaskLimit : InPoll(t) ~> PollEnded(t)

\* the loop used up its 120 requests and raised
C8_Witness ==
    \E t \in Tasks :
        /\ polls[t] = max_attempts
        /\ poll_result[t] = "raised"
        /\ last_status[t] \in {"pending", "unknown"}

\* C9 as claimed: after a status response that reports failure no further
\* status request is issued for the job.
C9_NoPollAfterFailure ==
    [][\A t \in Tasks :
          (last_status[t] = "failed" /\ t \in DOMAIN polls')
              => polls'[t] = polls[t]]_vars

\* C10: without a credential a task issues no submission and no status
\* request, and a task that has ended returned normally, its clip
\* "completed" with the placeholder's path recorded.
C10_NoCredentialGivesPlaceholder ==
    ~wan_api_key =>
        \A t \in Tasks :
            /\ submits[t] = 0
            /\ polls[t] = 0
            /\ taskPc[t] # "raised"
            /\ taskPc[t] = "done" =>
                   /\ placeholder[t]
                   /\ ClipOf(t).status = "completed"
                   /\ ClipOf(t).local_path = <<tasks[t]>>

\* a task ended on the placeholder path with no credential configured
C10_Witness ==
    /\ ~wan_api_key
    /\ \E t \in Tasks :
           /\ taskPc[t] = "done"
           /\ placeholder[t]
           /\ ClipOf(t).status = "completed"

\* C11 as claimed: with no credential, the image present and a script with
\* scenes, every clip ends "completed" on the placeholder path and
\* generate_all_clips leaves the generation "completed".
C11_NoCredentialCompletes ==
    (~wan_api_key /\ image_exists /\ scenes # <<>> /\ genPc = "done"
        /\ asm_runs = 0) =>
        /\ \A i \in 1..Len(clips) : clips[i].status = "completed"
        /\ \A t \in Tasks : placeholder[t]
        /\ ad_status = "completed"

\* C12 as claimed: with a credential, a script of 3 scenes and every job
\* succeeding on its first status request, the generation ends "completed"
\* with its final video reference set and the 3 clip files removed.
C12_ThreeScenesAssembled ==
    (wan_api_key /\ image_exists /\ Len(scenes) = 3 /\ genPc = "done"
        /\ asm_runs = 0
        /\ \A t \in Tasks : polls[t] = 1 /\ poll_result[t] = "returned") =>
        /\ ad_status = "completed"
        /\ ad_final # NULL
        /\ Len(clips) = 3
        /\ \A i \in 1..Len(clips) : i \notin clip_files

\* C13 as claimed: with a script of 3 scenes, a task whose job reported no
\* success in any of the 120 status requests ends with its clip "failed", the
\* generation is never "assembling" or "completed", and it is "failed" once
\* generate_all_clips has ended.
C13_StuckJobFailsClipAndGeneration ==
    \A t \in Tasks :
        (Len(scenes) = 3 /\ Resolved(t) /\ polls[t] = max_attempts
            /\ poll_result[t] = "raised" /\ ~success_seen[t]) =>
            /\ ClipOf(t).status = "failed"
            /\ ad_status \notin {"assembling", "completed"}
            /\ genPc = "done" => ad_status = "failed"

C16_WorkerWritesOwnClipOnly ==
    [][(tasks # <<>> /\ tasks' = tasks /\ taskVars' # taskVars) =>
          /\ ad_status' = ad_status
          /\ ad_final' = ad_final
          /\ obj_status' = obj_status
          /\ obj_final' = obj_final
          /\ DOMAIN clips' = DOMAIN clips
          /\ \E t \in Tasks :
                 \A i \in DOMAIN clips : i # tasks[t] => clips'[i] = clips[i]]_vars

\* a task has written "generating" to its clip, the generation being
\* "generating"
C16_Witness ==
    \E t \in Tasks :
        /\ taskPc[t] = "call"
        /\ ClipOf(t).status = "generating"
        /\ ad_status = "generating"

\* C17 as claimed: no exception leaves _generate_clip: a task never raises
\* into the gather, and a task that has returned left its clip "completed" or
\* "failed".
C17_WorkerNeverRaises ==
    \A t \in Tasks :
        /\ taskPc[t] \notin {"raising", "raised"}
        /\ taskPc[t] = "done" => ClipOf(t).status \in {"completed", "failed"}

NormalizeEvents ==
    {"audio_ok", "audio_error", "audio_copy", "color_ok", "color_error", "color_copy"}

\* C18: when the concatenation fails, no later step of the invocation writes
\* the final video reference (it stays unset on a generation that was not
\* assembled before), and assemble_video ends with the generation "failed",
\* no normalization stage having run and nothing having been committed.
C18_ConcatFailureIsFatal ==
    /\ []("concat_failed" \in asm_log =>
            /\ asm_log \cap NormalizeEvents = {}
            /\ "committed" \notin asm_log
            /\ asmPc \in {"except", "idle"}
            /\ asm_runs = 1 => ad_final = NULL
            /\ asmPc = "idle" => ad_status = "failed")
    /\ [][("concat_failed" \in asm_log /\ "concat_failed" \in asm_log')
             => ad_final' = ad_final]_vars

\* the tool failed on the full list of 12 clip files and assemble_video has
\* ended
C18_Witness ==
    /\ "concat_failed" \in asm_log
    /\ Len(concat_list) = ExpectedClips
    /\ asmPc = "idle"
    /\ ad_status = "failed"
    /\ ad_final = NULL

\* C19: a normalization stage whose tool reported an error made the copy and
\* the invocation went on: it reaches the commit of "completed" with the
\* final video reference, the final file written, and unless a removal of an
\* intermediate file fails afterwards it ends with the generation
\* "completed".
C19_NormalizeErrorDegradesToCopy ==
    /\ "audio_error" \in asm_log =>
           "audio_copy" \in asm_log /\ asmPc # "normalize_audio"
    /\ "color_error" \in asm_log =>
           "color_copy" \in asm_log /\ asmPc \notin {"normalize_audio", "normalize_color"}
    /\ asm_log \cap {"audio_error", "color_error"} # {} =>
           /\ asmPc = "except" => "remove_failed" \in asm_log
           /\ asmPc \in {"cleanup", "except", "idle"} =>
                  /\ "committed" \in asm_log
                  /\ ad_final = FinalUrl
                  /\ "final" \in output_files
           /\ (asmPc \in {"cleanup", "idle"} /\ "remove_failed" \notin asm_log) =>
                  ad_status = "completed"

\* both tools reported an error and assemble_video has ended
C19_Witness ==
    /\ {"audio_error", "color_error"} \subseteq asm_log
    /\ asmPc = "idle"
    /\ ad_status = "completed"
    /\ ad_final = FinalUrl

\* C20: once written, the concat list holds the completed clips that have
\* their file, each once, in ascending sequence_index.
C20_ConcatListAscending ==
    asmPc \notin {"idle", "concat_file"} =>
        /\ \A a, b \in 1..Len(concat_list) :
               a < b => clips[concat_list[a]].sequence_index
                            < clips[concat_list[b]].sequence_index
        /\ asmPc = "concatenate" =>
               \A i \in 1..Len(clips) :
                   (clips[i].status = "completed" /\ HasFile(i)) =>
                       \E a \in 1..Len(concat_list) : concat_list[a] = i

\* the list of a generation whose clip records were inserted in descending
\* scene order
C20_Witness ==
    /\ asmPc = "concatenate"
    /\ Len(concat_list) = ExpectedClips
    /\ clips[1].sequence_index = ExpectedClips
    /\ concat_list[1] = ExpectedClips

C22_ReassemblyKeepsCompleted ==
    ("was_completed" \in asm_log /\ "remove_failed" \notin asm_log) =>
        /\ ad_status = "completed"
        /\ ad_final = FinalUrl

\* a step of the chain pending -> generating -> assembling -> completed, or a
\* step from a status that is not terminal to "failed"
StatusForward(a, b) ==
    \/ a = b
    \/ a = "absent" /\ b = "pending"
    \/ <<a, b>> \in {<<"pending", "generating">>, <<"generating", "assembling">>,
                    <<"assembling", "completed">>}
    \/ a \in {"pending", "generating", "assembling"} /\ b = "failed"

\* C23 as claimed: every write of the generation's status, committed or on
\* the session object of generate_all_clips, is a step along the chain.
C23_StatusOnlyForward ==
    [][/\ StatusForward(ad_status, ad_status')
       /\ obj_status # "absent" => StatusForward(obj_status, obj_status')]_vars

\* a step of the chain pending -> generating -> completed | failed
ClipForward(a, b) ==
    \/ a = b
    \/ <<a, b>> \in {<<"pending", "generating">>, <<"generating", "completed">>,
                    <<"generating", "failed">>}

\* C24: every step leaves the status of each clip record as it is or moves
\* it one step along pending -> generating -> completed | failed; a clip
\* that is "completed" or "failed" keeps that status.
C24_ClipStatusOnlyForward ==
    [][\A i \in DOMAIN clips \cap DOMAIN clips' :
          ClipForward(clips[i].status, clips'[i].status)]_vars

\* a task has ended by raising, its clip "failed", the gather not yet resumed
C24_Witness ==
    /\ genPc = "gather"
    /\ \E t \in Tasks : taskPc[t] = "raised" /\ ClipOf(t).status = "failed"

\* C25 as claimed: a database error raised by the status write of an error
\* handler leaves none of generate_all_clips, _generate_clip and
\* assemble_video.
C25_HandlerDbErrorsSwallowed ==
    /\ genPc # "crashed"
    /\ asmPc # "crashed"
    /\ \A t \in Tasks : taskPc[t] # "crashed"

\* C26: POST /api/generate-video has answered exactly when the record was
\* created and generate_all_clips scheduled, and its answer carries the
\* status "pending" and no clip, whatever became of the generation since.
C26_ResponseAlwaysPending ==
    /\ response = NoResponse <=> genPc = "idle"
    /\ response # NoResponse =>
           /\ response.status = "pending"
           /\ response.clips = <<>>

\* the answer of a generation that has failed since
C26_Witness ==
    /\ response.status = "pending"
    /\ genPc = "done"
    /\ ad_status = "failed"

Called == dir_result # NotCalled

\* C27 as claimed: with neither client configured every call of
\* analyze_and_script raises, whatever the image and the cache.
C27_NoCredentialAlwaysRaises ==
    (~gemini_client /\ ~openai_client /\ Called) => dir_result.outcome = "raised"

\* C27 amended: with neither client configured a call of analyze_and_script
\* raises unless the cache holds a script for the image, and then it returns
\* that script: it never returns a script it did not find in the cache.
C27_NoCredentialRaisesUnlessCached ==
    (~gemini_client /\ ~openai_client /\ Called) =>
        /\ dir_result.outcome \in {"raised", "cached"}
        /\ dir_result.image \notin CachedImages => dir_result.outcome = "raised"
        /\ dir_result.outcome = "cached" => dir_result.image \in CachedImages

\* with neither client configured a call on a stored image that has no
\* cached script raised, the cache holding the script of another image
C27_Witness ==
    /\ ~gemini_client
    /\ ~openai_client
    /\ dir_result.outcome = "raised"
    /\ dir_result.image \in (1..MaxImages) \ CachedImages
    /\ script_cache # {}

\* C28 as claimed: a task whose submission response carried a video URL and
\* no job id in its output issues no status request, and ends returning with
\* its clip "completed".
C28_SyncResultNotPolled ==
    \A t \in Tasks :
        video_in_reply[t] =>
            /\ polls[t] = 0
            /\ ~InPoll(t)
            /\ Resolved(t) => (taskPc[t] = "done" /\ ClipOf(t).status = "completed")

\* C29 as claimed: when generate_all_clips has ended after the join, it has
\* committed "completed" with the final video reference and written the
\* final file if a clip was "completed", and committed "failed" if none was.
C29_GateCopiesFirstClip ==
    (genPc = "done" /\ asm_runs = 0 /\ tasks # <<>>
        /\ \A t \in Tasks : taskPc[t] = "done") =>
        IF CompletedCount >= GateThreshold
        THEN /\ ad_status = "completed"
             /\ ad_final = FinalUrl
             /\ "final" \in output_files
        ELSE ad_status = "failed"

\* C30: assemble_video is past its count check only with exactly 12 completed
\* clips; an invocation that found another count has written "failed", has
\* written no list, run no tool and committed nothing, and the final video
\* reference is unset.
C30_AssemblesOnlyTwelve ==
    /\ asmPc \notin {"idle", "except"} =>
           /\ Len(asm_clips) = ExpectedClips
           /\ \A k \in 1..Len(asm_clips) : clips[asm_clips[k]].status = "completed"
    /\ (asm_runs > 0 /\ Len(asm_clips) # ExpectedClips) =>
           /\ "wrong_count" \in asm_log
           /\ asm_log \subseteq {"wrong_count", "handler_db_error"}
           /\ asmPc \in {"idle", "except"}
           /\ ad_status = "failed"
           /\ ad_final = NULL
           /\ output_files = {}

\* an invocation on a generation with 11 completed clips has ended
C30_Witness ==
    /\ "wrong_count" \in asm_log
    /\ Len(asm_clips) = ExpectedClips - 1
    /\ asmPc = "idle"
    /\ ad_status = "failed"

\* C31: when the product image is not found or the script has no scenes, a
\* started generate_all_clips has created no clip record and no clip task,
\* and once it has ended the generation is `failed`
C31_NoInputFailsWithoutClips ==
    (genPc # "idle" /\ (~image_exists \/ scenes = <<>>)) =>
        /\ clips = <<>>
        /\ tasks = <<>>
        /\ genPc = "done" => ad_status = "failed"

\* generate_all_clips has ended on a script without scenes, the image found
C31_Witness ==
    /\ genPc = "done"
    /\ image_exists
    /\ scenes = <<>>
    /\ ad_status = "failed"
    /\ clips = <<>>
    /\ tasks = <<>>

\* C32: a clip record becomes `completed` only with a non-null local_path
\* whose file exists at that moment
C32_CompletedClipHasFile ==
    [][\A i \in DOMAIN clips' :
          (i \in DOMAIN clips /\ clips[i].status # "completed"
                               /\ clips'[i].status = "completed")
          => /\ clips'[i].local_path # NULL
             /\ clips'[i].local_path[1] \in clip_files']_vars

\* C33: a generation whose generate_all_clips was scheduled on an existing
\* record leads to generate_all_clips having ended with the record
\* `completed` or `failed`
C33_GenerationEnds ==
    (genPc = "scheduled" /\ ad_status # "absent")
        ~> (genPc = "done" /\ ad_status \in {"completed", "failed"})

\* generate_all_clips has ended after its task polled to the ceiling
C33_Witness ==
    /\ genPc = "done"
    /\ ad_status \in {"completed", "failed"}
    /\ AllResolved
    /\ \E t \in Tasks : attempt[t] = max_attempts

\* C34: the slots held are those of the tasks inside the gate, so a task
\* that has ended, by return or by exception, holds none and after all
\* tasks have resolved the gate is full again; every scheduled task that
\* waits for a slot is eventually admitted
C34_SlotsReleasedAndTasksAdmitted ==
    /\ [](semaphore = SemaphoreSize - Cardinality({t \in Tasks : InGate(t)}))
    /\ [](AllResolved => semaphore = SemaphoreSize)
    /\ \A t \in 1..DebugTaskLimit :
          (t \in Tasks /\ taskPc[t] = "waiting")
              ~> (t \in Tasks /\ taskPc[t] # "waiting")

\* a task left the gate by an exception and its slot is back
C34_Witness ==
    /\ AllResolved
    /\ \E t \in Tasks : taskPc[t] = "raised"
    /\ semaphore = SemaphoreSize

\* C35: inside one assemble_video call, after `completed` and the final
\* video reference are committed no later step changes the status
C35_CommittedStatusStays ==
    [][("committed" \in asm_log /\ asmPc # "idle") => ad_status' = ad_status]_vars

\* C36: the cache changes only in a call whose analysis returned a script of
\* exactly 12 scenes, and then by the file of that script; a call that
\* raised leaves the cache as it was; every cache file holds a script of 12
\* scenes
C36_CacheOnlyAfterValidAnalysis ==
    /\ [](\A c \in script_cache : JsonLoad(c.text).scenes = ExpectedScenes)
    /\ [][script_cache' # script_cache =>
            /\ dir_result'.outcome \in {"gemini", "openai"}
            /\ dir_result'.scenes = ExpectedScenes
            /\ \E c \in script_cache' :
                /\ c.image = dir_result'.image
                /\ JsonLoad(c.text).scenes = dir_result'.scenes
                /\ JsonLoad(c.text).variant = dir_result'.variant
                /\ script_cache' = script_cache \cup {c}]_vars
    /\ [][(dir_result' # dir_result /\ dir_result'.outcome = "raised")
              => script_cache' = script_cache]_vars

\* an analysis of the vision API raised on a script of 11 scenes, after an
\* earlier one had written the cache
C36_Witness ==
    /\ dir_result.outcome = "raised"
    /\ dir_result.scenes = ExpectedScenes - 1
    /\ dir_result.image \in dir_requests
    /\ \E c \in script_cache : c.image \in dir_requests

\* C37: once an image has a script in the cache, the cache keeps that
\* script, and every call on the image returns it and sends nothing to the
\* vision API; a successful call leaves the script it returned in the cache
C37_CachedScriptReturnedWithoutRequest ==
    /\ [][script_cache \subseteq script_cache']_vars
    /\ [](dir_result.outcome \in {"gemini", "openai"} =>
            \E c \in script_cache :
                /\ c.image = dir_result.image
                /\ JsonLoad(c.text).scenes = dir_result.scenes
                /\ JsonLoad(c.text).variant = dir_result.variant)
    /\ [][\A c \in script_cache :
            (dir_result'.image = c.image /\ dir_result' # dir_result) =>
                /\ dir_result'.outcome = "cached"
                /\ dir_result'.scenes = JsonLoad(c.text).scenes
                /\ dir_result'.variant = JsonLoad(c.text).variant
                /\ dir_requests' = dir_requests]_vars

\* a call returned from the cache the script that an earlier call of this
\* service had obtained from the vision API
C37_Witness ==
    /\ dir_result.outcome = "cached"
    /\ dir_result.image \in dir_requests
    /\ dir_result.scenes = ExpectedScenes
    /\ dir_result.image \in CachedImages

====
